---- MODULE Spec2Model ----
(***************************************************************************)
(* A model of tygenie/opsgenie.py: the pagination/filter engine (Query),   *)
(* the API facade (OpsGenie, with its generic invoker api_call) and the    *)
(* client manager (OpsgenieClient).  The settings provider (ty_config) is  *)
(* the environment: its values may change between any two calls.           *)
(*                                                                         *)
(* Python values: a dict is a function from its keys; None is the string   *)
(* None below, which is no filter name and no credential of the model.     *)
(***************************************************************************)
EXTENDS Integers, Sequences, FiniteSets, Bags, TLC

VARIABLES
    \* ---- ty_config (the settings provider) ----
    cfg_alerts,          \* ty_config.tygenie["alerts"]: a dict, "limit" optional
    cfg_default_filter,  \* ty_config.tygenie.get("default_filter", None)
    cfg_filters,         \* ty_config.tygenie.get("filters", {})
    \* ---- the Query object ----
    _limit,              \* Query._limit
    sort,                \* Query.sort
    order,               \* Query.order
    query,               \* Query.query
    offset,              \* Query.offset
    current_filter,      \* Query.current_filter
    current,             \* Query.current
    last,                \* the call on the Query object that led to this state, with
                         \* what it returned (NoCall after a step of the settings provider)
    nNext,               \* history: number of get_next calls since construction
    nPrev,               \* history: number of get_previous calls since construction
    limitChanged,        \* history: the configured limit changed since construction
    \* ---- ty_config, the credentials ----
    cfg_opsgenie,        \* ty_config.opsgenie: a dict, every key optional
    \* ---- the OpsGenie objects and the OpsgenieClient ----
    heap,                \* the OpsGenie objects built so far, by identity (1, 2, ...)
    api,                 \* OpsgenieClient.api: the identity of an OpsGenie, 0 before
                         \* the attribute is first assigned
    mgr_pc,              \* the position of OpsgenieClient.__init__
    client_self,         \* the OpsgenieClient's own OpsGenie fields (super().__init__())
    inflight,            \* the bag of calls suspended in api_call's await
    returned,            \* the call that returned in the step that led to this state
    defaults,            \* per facade method, the dict object that is the default
                         \* value of its parameters argument (one object per function)
    \* ---- ty_config, the log section, and what ApiLog wrote ----
    cfg_log,             \* ty_config.tygenie: a dict, its "log" key optional
    log_sink,            \* the lines passed to textual's log
    log_file             \* the lines appended to files, each with its path

qvars == <<cfg_alerts, cfg_default_filter, cfg_filters, _limit, sort, order, query,
           offset, current_filter, current, last, nNext, nPrev, limitChanged>>

avars == <<cfg_opsgenie, heap, api, mgr_pc, client_self, inflight, returned, defaults>>

lvars == <<cfg_log, log_sink, log_file>>

vars == <<qvars, avars, lvars>>

-----------------------------------------------------------------------------
(* Python values *)

None == "None"

EmptyDict == [k \in {} |-> 0]

\* d.get(k, default)
DictGet(d, k, default) == IF k \in DOMAIN d THEN d[k] ELSE default

\* a | b, and a.update(b): the keys of both, b's value on a collision
DictMerge(a, b) ==
    [k \in DOMAIN a \cup DOMAIN b |-> IF k \in DOMAIN b THEN b[k] ELSE a[k]]

Max(a, b) == IF a >= b THEN a ELSE b

Abs(a) == IF a >= 0 THEN a ELSE -a

\* int(a / b) for b # 0: true division, then truncation towards zero
IntTrueDiv(a, b) ==
    IF (a >= 0) = (b > 0) THEN Abs(a) \div Abs(b) ELSE -(Abs(a) \div Abs(b))

-----------------------------------------------------------------------------
(* Bounds and input sets *)

\* paging calls (get_next, get_previous) made on one Query object
MaxPaging == 4

DefaultLimit == 22

\* the values the configuration gives alerts.limit (besides leaving it out)
ConfigLimits == {2, 3}

AlertsConfigs == {EmptyDict} \cup {[limit |-> v] : v \in ConfigLimits}

\* alerts.limit values that are not page sizes
NonPositiveLimits == {0, -2}

LimitConfigs == AlertsConfigs \cup {[limit |-> v] : v \in NonPositiveLimits}

FilterNames == {"x", "y"}

FilterArgs == {None} \cup FilterNames

\* an entry of the filter table: a dict whose "filter" key is optional
FilterEntries(n) == {[filter |-> "tag:" \o n], EmptyDict}

FilterTables ==
    UNION {{t \in [S -> UNION {FilterEntries(n) : n \in FilterNames}] :
               \A n \in S : t[n] \in FilterEntries(n)} : S \in SUBSET FilterNames}

\* the parameters a caller passes to get
Overrides == {EmptyDict, [offset |-> 40], [extra |-> "v"]}

-----------------------------------------------------------------------------
(* Query *)

\* the limit property, never reading the configuration
limit_not_reread == DefaultLimit

\* the limit property: re-read from the configuration on every access
limit == DictGet(cfg_alerts, "limit", DefaultLimit)

\* _get_query, forgetting the last-used filter on a parameterless call
_get_query_no_sticky(filter_name, self_current_filter) ==
    LET name == IF filter_name = None THEN cfg_default_filter ELSE filter_name
        q == IF name # None
             THEN IF name \notin DOMAIN cfg_filters
                  THEN ""
                  ELSE DictGet(cfg_filters[name], "filter", "")
             ELSE ""
    IN  [query |-> q, current_filter |-> name]

\* _get_query, with the last-used filter taking precedence over the argument
_get_query_current_first(filter_name, self_current_filter) ==
    LET name == IF self_current_filter # None
                THEN self_current_filter
                ELSE IF filter_name = None THEN cfg_default_filter ELSE filter_name
        q == IF name # None
             THEN IF name \notin DOMAIN cfg_filters
                  THEN ""
                  ELSE DictGet(cfg_filters[name], "filter", "")
             ELSE ""
    IN  [query |-> q, current_filter |-> name]

\* _get_query: the query string, and the value it leaves in current_filter
_get_query(filter_name, self_current_filter) ==
    LET name == IF filter_name = None
                THEN IF self_current_filter # None
                     THEN self_current_filter
                     ELSE cfg_default_filter
                ELSE filter_name
        q == IF name # None
             THEN IF name \notin DOMAIN cfg_filters
                  THEN ""
                  ELSE DictGet(cfg_filters[name], "filter", "")
             ELSE ""
    IN  [query |-> q, current_filter |-> name]

\* get, merging the computed parameters over the caller's
get_params_win(filter_name, parameters, self_offset, self_current_filter) ==
    LET r == _get_query(filter_name, self_current_filter)
        params == [limit |-> limit, sort |-> sort, order |-> order,
                   offset |-> self_offset, query |-> r.query]
    IN  [ret |-> DictMerge(parameters, params), current_filter |-> r.current_filter]

\* get: the mapping it returns, and the value it leaves in current_filter
get(filter_name, parameters, self_offset, self_current_filter) ==
    LET r == _get_query(filter_name, self_current_filter)
        params == [limit |-> limit, sort |-> sort, order |-> order,
                   offset |-> self_offset, query |-> r.query]
    IN  [ret |-> DictMerge(params, parameters), current_filter |-> r.current_filter]

\* current_page, counting pages from 0
current_page_zero_based == IntTrueDiv(offset, limit)

\* current_page: what it returns in this state (limit # 0)
current_page == IntTrueDiv(offset, limit) + 1

Call(op, filter_name, parameters, ret) ==
    [op |-> op, filter_name |-> filter_name, parameters |-> parameters, ret |-> ret]

\* no call: the step that led here was the settings provider's
NoCall == Call("none", None, EmptyDict, EmptyDict)

\* Query.__init__, under the configuration of the state
Query__init__ ==
    /\ sort = "createdAt"
    /\ order = "desc"
    /\ query = "status:open"
    /\ offset = 0
    /\ LET r == get(None, EmptyDict, 0, None)
       IN  /\ current_filter = r.current_filter
           /\ current = r.ret
           /\ last = Call("__init__", None, EmptyDict, r.ret)
    /\ _limit = limit
    /\ nNext = 0
    /\ nPrev = 0
    /\ limitChanged = FALSE

\* Query.__init__, under any configuration
InitQuery ==
    /\ cfg_alerts \in AlertsConfigs
    /\ cfg_default_filter \in FilterArgs
    /\ cfg_filters \in FilterTables
    /\ Query__init__

\* get, storing the offset of the caller's parameters in the Query
call_get_stores_offset(filter_name, parameters) ==
    LET r == get(filter_name, parameters, offset, current_filter)
    IN  /\ current_filter' = r.current_filter
        /\ _limit' = limit
        /\ offset' = r.ret.offset
        /\ last' = Call("get", filter_name, parameters, r.ret)
        /\ UNCHANGED <<avars, lvars>>
        /\ UNCHANGED <<cfg_alerts, cfg_default_filter, cfg_filters, sort, order, query,
                       current, nNext, nPrev, limitChanged>>

call_get(filter_name, parameters) ==
    LET r == get(filter_name, parameters, offset, current_filter)
    IN  /\ current_filter' = r.current_filter
        /\ _limit' = limit
        /\ last' = Call("get", filter_name, parameters, r.ret)
        /\ UNCHANGED <<avars, lvars>>
        /\ UNCHANGED <<cfg_alerts, cfg_default_filter, cfg_filters, sort, order, query,
                       offset, current, nNext, nPrev, limitChanged>>

\* current_page: int(self.offset / self.limit) raises when the limit read is 0
call_current_page ==
    /\ _limit' = limit
    /\ last' = Call("current_page", None, EmptyDict,
                    IF limit = 0
                    THEN [raised |-> "ZeroDivisionError"]
                    ELSE [page |-> current_page])
    /\ UNCHANGED <<avars, lvars>>
    /\ UNCHANGED <<cfg_alerts, cfg_default_filter, cfg_filters, sort, order, query,
                   offset, current_filter, current, nNext, nPrev, limitChanged>>

get_next ==
    /\ nNext + nPrev < MaxPaging
    /\ LET off == offset + limit
           r == get(None, [offset |-> off], off, current_filter)
       IN  /\ offset' = off
           /\ current_filter' = r.current_filter
           /\ _limit' = limit
           /\ last' = Call("get_next", None, [offset |-> off], r.ret)
    /\ nNext' = nNext + 1
    /\ UNCHANGED <<avars, lvars>>
    /\ UNCHANGED <<cfg_alerts, cfg_default_filter, cfg_filters, sort, order, query,
                   current, nPrev, limitChanged>>

get_previous ==
    /\ nNext + nPrev < MaxPaging
    /\ LET off == offset - limit
           r == get(None, [offset |-> Max(0, off)], off, current_filter)
       IN  /\ offset' = off
           /\ current_filter' = r.current_filter
           /\ _limit' = limit
           /\ last' = Call("get_previous", None, [offset |-> Max(0, off)], r.ret)
    /\ nPrev' = nPrev + 1
    /\ UNCHANGED <<avars, lvars>>
    /\ UNCHANGED <<cfg_alerts, cfg_default_filter, cfg_filters, sort, order, query,
                   current, nNext, limitChanged>>

\* the settings provider changes alerts.limit
SetLimit(a) ==
    /\ a # cfg_alerts
    /\ cfg_alerts' = a
    /\ limitChanged' = (limitChanged \/ DictGet(a, "limit", DefaultLimit) # limit)
    /\ last' = NoCall
    /\ UNCHANGED <<avars, lvars>>
    /\ UNCHANGED <<cfg_default_filter, cfg_filters, _limit, sort, order, query, offset,
                   current_filter, current, nNext, nPrev>>

\* the settings provider changes default_filter
SetDefaultFilter(d) ==
    /\ d # cfg_default_filter
    /\ cfg_default_filter' = d
    /\ last' = NoCall
    /\ UNCHANGED <<avars, lvars>>
    /\ UNCHANGED <<cfg_alerts, cfg_filters, _limit, sort, order, query, offset,
                   current_filter, current, nNext, nPrev, limitChanged>>

\* the settings provider changes the filter table
SetFilters(t) ==
    /\ t # cfg_filters
    /\ cfg_filters' = t
    /\ last' = NoCall
    /\ UNCHANGED <<avars, lvars>>
    /\ UNCHANGED <<cfg_alerts, cfg_default_filter, _limit, sort, order, query, offset,
                   current_filter, current, nNext, nPrev, limitChanged>>

-----------------------------------------------------------------------------
(* ApiLog *)

\* "TyGenie {}".format(c.VERSION)
Source == "TyGenie VERSION"

\* pendulum.now()
Now == "now"

\* lines ApiLog has passed to textual's log in one session
MaxLogLines == 3

\* the values the settings provider gives the log section of ty_config.tygenie
LogSections ==
    { EmptyDict,
      [enable |-> FALSE],
      [enable |-> TRUE],
      [enable |-> TRUE, file |-> "/var/log/ty.log"],
      [enable |-> FALSE, file |-> "/var/log/ty.log"],
      [file |-> "/var/log/ty.log"] }

LogConfigs == {EmptyDict} \cup {[log |-> sec] : sec \in LogSections}

Messages == {"", "API call"}

\* what one ApiLog(message) call passes to textual's log and appends to the file;
\* write_fails: opening or writing the file raises
ApiLog(message, write_fails) ==
    LET log_config == DictGet(cfg_log, "log", [enable |-> FALSE])
        logline == "[" \o Now \o "] " \o message
        nothing == [sink |-> <<>>, file |-> <<>>]
    IN  IF message = ""
        THEN nothing
        ELSE IF "enable" \in DOMAIN log_config /\ ~log_config["enable"]
        THEN nothing
        ELSE IF write_fails
        THEN [sink |-> <<logline, "Unable to log in file: e">>, file |-> <<>>]
        ELSE [sink |-> <<logline>>,
              file |-> <<[path |-> DictGet(log_config, "file", "/tmp/tygenie.log"),
                          text |-> logline \o "\n"]>>]

\* no log section, nothing written: ApiLog is a no-op in the sessions that start here
LogQuiet ==
    /\ cfg_log = EmptyDict
    /\ log_sink = <<>>
    /\ log_file = <<>>

call_ApiLog(message, write_fails) ==
    /\ Len(log_sink) < MaxLogLines
    /\ log_sink' = log_sink \o ApiLog(message, write_fails).sink
    /\ log_file' = log_file \o ApiLog(message, write_fails).file
    /\ UNCHANGED <<cfg_log, qvars, avars>>

\* the settings provider changes the log section
SetLog(c) ==
    /\ c # cfg_log
    /\ cfg_log' = c
    /\ UNCHANGED <<log_sink, log_file, qvars, avars>>

-----------------------------------------------------------------------------
(* OpsGenie: the facade and its generic invoker *)

\* calls suspended at the same time on the facades of one OpsgenieClient
MaxInflight == 2

\* reload() calls made on one OpsgenieClient
MaxReloads == 2

\* the values the settings provider gives ty_config.opsgenie
CredentialConfigs ==
    { EmptyDict,
      [username |-> "alice", host |-> "https://a", api_key |-> "key-a"],
      [host |-> "https://b", api_key |-> "key-b"] }

\* AuthenticatedClient(base_url, token, prefix="GenieKey", timeout=Timeout(5.0, connect=10.0))
AuthenticatedClient(base_url, token) ==
    [base_url |-> base_url, token |-> token, prefix |-> "GenieKey",
     timeout |-> [timeout |-> 5, connect |-> 10]]

\* OpsGenie.__init__
OpsGenie(api_key, host, username) ==
    [api_key |-> api_key, host |-> host, username |-> username, source |-> Source,
     client |-> AuthenticatedClient(host, api_key)]

AlertActionPayload(user, source, note) == [user |-> user, source |-> source, note |-> note]

AddTagsToAlertPayload(user, source, note, tags) ==
    [user |-> user, source |-> source, note |-> note, tags |-> tags]

\* the facade methods that take a parameters mapping, and those that take none
ParameterMethods ==
    {"count_alerts", "list_alerts", "get_alert", "get_alert_notes", "ack_alert",
     "add_note", "unack_alert", "close_alert", "tag_alert", "remove_tag_alert",
     "whois_on_call"}

Methods == ParameterMethods \cup {"get_account_info", "list_schedules"}

\* the methods that take a note, and those that take tags
NoteMethods ==
    {"ack_alert", "add_note", "unack_alert", "close_alert", "tag_alert",
     "remove_tag_alert"}

TagMethods == {"tag_alert", "remove_tag_alert"}

\* a 'body' a caller puts in its own mapping
CallerBody == [user |-> "mallory", source |-> "caller", note |-> "mine"]

\* the parameter mappings a caller passes
ParameterSets ==
    { EmptyDict,
      [identifier |-> "a1"],
      [identifier |-> "a1", body |-> CallerBody],
      [limit |-> 5, query |-> "tag:x"],
      [flat |-> FALSE] }

\* the notes and the tags a caller passes; "" and [] are the arguments' defaults
Notes == {"", "seen"}

TagLists == {<<>>, <<"t2", "t1">>}

\* list_alerts' limit argument, left at its default
ListLimit == 50

\* what a facade method does before it reaches api_call: the exception it raises (None
\* when it raises nothing), the resource it names, the keyword arguments it passes, and
\* the dict object bound to its parameters argument as the method leaves it
Shaped(raised, resource, kwargs, after) ==
    [raised |-> raised, resource |-> resource, kwargs |-> kwargs, after |-> after]

get_account_info(self) == Shaped(None, "get_info", EmptyDict, EmptyDict)

count_alerts(self, parameters) ==
    Shaped(None, "count_alerts", [query |-> DictGet(parameters, "query", "")], parameters)

\* list_alerts, with its own values merged over the caller's
list_alerts_defaults_win(self, parameters) ==
    Shaped(None, "list_alerts",
           DictMerge(parameters,
                     [limit |-> ListLimit, sort |-> "updatedAt", order |-> "desc",
                      query |-> ""]),
           parameters)

list_alerts(self, parameters) ==
    Shaped(None, "list_alerts",
           DictMerge([limit |-> ListLimit, sort |-> "updatedAt", order |-> "desc",
                      query |-> ""], parameters),
           parameters)

get_alert(self, parameters) == Shaped(None, "get_alert", parameters, parameters)

get_alert_notes(self, parameters) == Shaped(None, "list_notes", parameters, parameters)

\* parameters["body"] = body: the assignment is made in the dict object itself
ack_alert(self, parameters, note) ==
    LET body == AlertActionPayload(self.username, self.source, note)
        p == DictMerge(parameters, [body |-> body])
    IN  Shaped(None, "acknowledge_alert", p, p)

add_note(self, parameters, note) ==
    LET body == AlertActionPayload(self.username, self.source, note)
        p == DictMerge(parameters, [body |-> body])
    IN  Shaped(None, "add_note", p, p)

unack_alert(self, parameters, note) ==
    LET body == AlertActionPayload(self.username, self.source, note)
        p == DictMerge(parameters, [body |-> body])
    IN  Shaped(None, "un_acknowledge_alert", p, p)

close_alert(self, parameters, note) ==
    LET body == AlertActionPayload(self.username, Source, note)
        p == DictMerge(parameters, [body |-> body])
    IN  Shaped(None, "close_alert", p, p)

tag_alert(self, parameters, tags, note) ==
    LET body == AddTagsToAlertPayload(self.username, self.source, note, tags)
        p == DictMerge(parameters, [body |-> body])
    IN  Shaped(None, "add_tags", p, p)

\* remove_tag_alert, leaving the note out of its mapping
remove_tag_alert_no_note(self, parameters, tags, note) ==
    IF "identifier" \in DOMAIN parameters
    THEN Shaped(None, "remove_tags",
                [user |-> self.username, source |-> self.source, tags |-> tags,
                 note |-> "", identifier |-> parameters["identifier"]],
                parameters)
    ELSE Shaped("KeyError", "remove_tags", EmptyDict, parameters)

remove_tag_alert(self, parameters, tags, note) ==
    IF "identifier" \in DOMAIN parameters
    THEN Shaped(None, "remove_tags",
                [user |-> self.username, source |-> self.source, tags |-> tags,
                 note |-> note, identifier |-> parameters["identifier"]],
                parameters)
    ELSE Shaped("KeyError", "remove_tags", EmptyDict, parameters)

list_schedules(self) == Shaped(None, "list_schedules", EmptyDict, EmptyDict)

whois_on_call(self, parameters) ==
    Shaped(None, "get_on_calls", DictMerge([flat |-> TRUE, date |-> Now], parameters),
           parameters)

Shape(method, self, parameters, tags, note) ==
    CASE method = "get_account_info" -> get_account_info(self)
      [] method = "count_alerts" -> count_alerts(self, parameters)
      [] method = "list_alerts" -> list_alerts(self, parameters)
      [] method = "get_alert" -> get_alert(self, parameters)
      [] method = "get_alert_notes" -> get_alert_notes(self, parameters)
      [] method = "ack_alert" -> ack_alert(self, parameters, note)
      [] method = "add_note" -> add_note(self, parameters, note)
      [] method = "unack_alert" -> unack_alert(self, parameters, note)
      [] method = "close_alert" -> close_alert(self, parameters, note)
      [] method = "tag_alert" -> tag_alert(self, parameters, tags, note)
      [] method = "remove_tag_alert" -> remove_tag_alert(self, parameters, tags, note)
      [] method = "list_schedules" -> list_schedules(self)
      [] method = "whois_on_call" -> whois_on_call(self, parameters)

\* the statements of api_call's try block, in order
ApiCallSteps ==
    <<"log_call", "asyncio_detailed", "log_status_code", "log_content", "log_done",
      "parsed">>

\* the statement of the try block that raises: one of ApiCallSteps, or "none"
Faults == {"none"} \cup {ApiCallSteps[i] : i \in DOMAIN ApiCallSteps}

StepIndex(step) == CHOOSE i \in DOMAIN ApiCallSteps : ApiCallSteps[i] = step

\* what a call gives its caller: the exception it raises (None when it returns) and
\* the value it returns: None, the raw response object, or the parsed payload
Outcome(raised, value) == [raised |-> raised, value |-> value]

\* api_call, without the try block
api_call_no_except(fault) ==
    IF fault = "none" THEN Outcome(None, "response.parsed") ELSE Outcome("Exception", None)

\* api_call: response is None until asyncio_detailed has returned; the except clause
\* returns response
api_call(fault) ==
    IF fault = "none"
    THEN Outcome(None, "response.parsed")
    ELSE LET response == IF StepIndex(fault) > StepIndex("asyncio_detailed")
                         THEN "response"
                         ELSE None
         IN  Outcome(None, response)

\* a call: the method, the OpsGenie it runs on, the transport handle it passed to the
\* remote operation, the mapping bound to parameters when the method was entered,
\* whether the caller left the argument out, the tags and the note, the resource and
\* keyword arguments, and the mapping as the method left it
CallOf(method, self, parameters, omitted, tags, note) ==
    LET s == Shape(method, heap[self], parameters, tags, note)
    IN  [method |-> method, self |-> self, client |-> heap[self].client,
         parameters |-> parameters, omitted |-> omitted, tags |-> tags, note |-> note,
         resource |-> s.resource, kwargs |-> s.kwargs, after |-> s.after]

Returned(call, fault, outcome) == [call |-> call, fault |-> fault, outcome |-> outcome]

\* no call returned in the step that led here
NoReturn == [call |-> EmptyDict, fault |-> "none", outcome |-> Outcome(None, None)]

\* a caller invokes client.api.<method>(parameters, tags, note), or leaves parameters
\* out (omitted) and the method runs on its default dict object: the method runs up to
\* api_call's await, or to its end when it raises before
Dispatch(method, parameters, omitted, tags, note, log_raises) ==
    /\ mgr_pc = "done"
    /\ method \notin ParameterMethods => (parameters = EmptyDict /\ ~omitted)
    /\ omitted => parameters = EmptyDict
    /\ method \notin NoteMethods => note = ""
    /\ method \notin TagMethods => tags = <<>>
    /\ LET entry == IF omitted THEN defaults[method] ELSE parameters
           s == Shape(method, heap[api], entry, tags, note)
           c == CallOf(method, api, entry, omitted, tags, note)
       IN  /\ defaults' = IF omitted THEN [defaults EXCEPT ![method] = s.after]
                          ELSE defaults
           /\ IF s.raised # None
              THEN /\ returned' = Returned(c, "shape", Outcome(s.raised, None))
                   /\ UNCHANGED inflight
              ELSE IF log_raises
              THEN /\ returned' = Returned(c, "log_call", api_call("log_call"))
                   /\ UNCHANGED inflight
              ELSE /\ inflight' = inflight (+) SetToBag({c})
                   /\ returned' = NoReturn
    /\ UNCHANGED <<cfg_opsgenie, heap, api, mgr_pc, client_self>>
    /\ UNCHANGED <<qvars, lvars>>

\* the remote operation of a suspended call ends, and api_call runs to its end
Complete(c, fault) ==
    /\ BagIn(c, inflight)
    /\ fault # "log_call"
    /\ inflight' = inflight (-) SetToBag({c})
    /\ returned' = Returned(c, fault, api_call(fault))
    /\ UNCHANGED <<cfg_opsgenie, heap, api, mgr_pc, client_self, defaults>>
    /\ UNCHANGED <<qvars, lvars>>

\* _load, replacing the fields of the OpsGenie in place
_load_in_place(self_heap, self_api) ==
    [heap |-> [self_heap EXCEPT ![self_api] =
                   OpsGenie(DictGet(cfg_opsgenie, "api_key", None),
                            DictGet(cfg_opsgenie, "host", None),
                            DictGet(cfg_opsgenie, "username", None))],
     api |-> self_api]

\* _load, leaving api unset when the settings hold no credentials
_load_unset_when_unconfigured(self_heap, self_api) ==
    [heap |-> self_heap,
     api |-> IF cfg_opsgenie = EmptyDict THEN 0 ELSE self_api]

\* _load: a new OpsGenie from the settings, assigned to api
_load(self_heap, self_api) ==
    [heap |-> Append(self_heap,
                     OpsGenie(DictGet(cfg_opsgenie, "api_key", None),
                              DictGet(cfg_opsgenie, "host", None),
                              DictGet(cfg_opsgenie, "username", None))),
     api |-> Len(self_heap) + 1]

\* OpsgenieClient.__init__: self.api = OpsGenie()
init_api ==
    /\ mgr_pc = "api"
    /\ heap' = Append(heap, OpsGenie("", "", ""))
    /\ api' = Len(heap) + 1
    /\ mgr_pc' = "_load"
    /\ returned' = NoReturn
    /\ UNCHANGED <<cfg_opsgenie, client_self, inflight, defaults>>
    /\ UNCHANGED <<qvars, lvars>>

\* OpsgenieClient.__init__: self._load()
init_load ==
    /\ mgr_pc = "_load"
    /\ heap' = _load(heap, api).heap
    /\ api' = _load(heap, api).api
    /\ mgr_pc' = "super"
    /\ returned' = NoReturn
    /\ UNCHANGED <<cfg_opsgenie, client_self, inflight, defaults>>
    /\ UNCHANGED <<qvars, lvars>>

\* OpsgenieClient.__init__: super().__init__()
init_super ==
    /\ mgr_pc = "super"
    /\ client_self' = OpsGenie("", "", "")
    /\ mgr_pc' = "done"
    /\ returned' = NoReturn
    /\ UNCHANGED <<cfg_opsgenie, heap, api, inflight, defaults>>
    /\ UNCHANGED <<qvars, lvars>>

reload ==
    /\ mgr_pc = "done"
    /\ Len(heap) < MaxReloads + 2
    /\ heap' = _load(heap, api).heap
    /\ api' = _load(heap, api).api
    /\ returned' = NoReturn
    /\ UNCHANGED <<cfg_opsgenie, mgr_pc, client_self, inflight, defaults>>
    /\ UNCHANGED <<qvars, lvars>>

\* the settings provider changes the credentials
SetCredentials(c) ==
    /\ c # cfg_opsgenie
    /\ cfg_opsgenie' = c
    /\ returned' = NoReturn
    /\ UNCHANGED <<heap, api, mgr_pc, client_self, inflight, defaults>>
    /\ UNCHANGED <<qvars, lvars>>

\* the module's client = OpsgenieClient(), constructed under the settings c
Constructed(c) ==
    /\ cfg_opsgenie = c
    /\ heap = <<OpsGenie("", "", ""),
                OpsGenie(DictGet(c, "api_key", None), DictGet(c, "host", None),
                         DictGet(c, "username", None))>>
    /\ api = 2
    /\ mgr_pc = "done"
    /\ client_self = OpsGenie("", "", "")
    /\ inflight = EmptyBag
    /\ returned = NoReturn
    /\ defaults = [m \in ParameterMethods |-> EmptyDict]
    /\ LogQuiet

\* a Query under the built-in settings
InitQueryDefault ==
    /\ InitQuery
    /\ cfg_alerts = EmptyDict
    /\ cfg_default_filter = None
    /\ cfg_filters = [n \in {} |-> EmptyDict]

\* the facade session: a caller that awaits each call before it makes the next
InitFacade ==
    /\ InitQueryDefault
    /\ \E c \in CredentialConfigs : Constructed(c)

NextFacade ==
    \/ \E m \in Methods, p \in ParameterSets, t \in TagLists, n \in Notes,
          l \in BOOLEAN :
          inflight = EmptyBag /\ Dispatch(m, p, FALSE, t, n, l)
    \/ \E c \in BagToSet(inflight), f \in Faults : Complete(c, f)

SpecFacade == InitFacade /\ [][NextFacade]_vars

\* the methods called in the defaults session: those that assign parameters["body"],
\* and one that passes its mapping on as it is
DefaultsMethods ==
    {"ack_alert", "add_note", "unack_alert", "close_alert", "tag_alert", "get_alert"}

\* the defaults session: a caller that passes a mapping of its own or leaves the
\* parameters argument out, one call at a time
InitDefaults ==
    /\ InitQueryDefault
    /\ Constructed([username |-> "alice", host |-> "https://a", api_key |-> "key-a"])

NextDefaults ==
    \/ \E m \in DefaultsMethods, p \in {EmptyDict, [identifier |-> "a1"]},
          o \in BOOLEAN, t \in TagLists, n \in Notes :
          inflight = EmptyBag /\ Dispatch(m, p, o, t, n, FALSE)
    \/ \E c \in BagToSet(inflight), f \in {"none", "asyncio_detailed"} : Complete(c, f)

SpecDefaults == InitDefaults /\ [][NextDefaults]_vars

\* the method callers run as concurrent tasks in the client session (as main() does)
ClientMethods == {"count_alerts"}

\* the client session: construction, reloads, and calls that overlap them
InitClient ==
    /\ InitQueryDefault
    /\ cfg_opsgenie \in CredentialConfigs
    /\ heap = <<>>
    /\ api = 0
    /\ mgr_pc = "api"
    /\ client_self = EmptyDict
    /\ inflight = EmptyBag
    /\ returned = NoReturn
    /\ defaults = [m \in ParameterMethods |-> EmptyDict]
    /\ LogQuiet

NextClient ==
    \/ init_api
    \/ init_load
    \/ init_super
    \/ reload
    \/ \E m \in ClientMethods :
          BagCardinality(inflight) < MaxInflight
          /\ Dispatch(m, EmptyDict, FALSE, <<>>, "", FALSE)
    \/ \E c \in BagToSet(inflight), f \in Faults : Complete(c, f)
    \/ \E c \in CredentialConfigs : SetCredentials(c)

SpecClient == InitClient /\ [][NextClient]_vars

-----------------------------------------------------------------------------
(* The Query sessions *)

\* the paging session: every call, and a settings provider that changes the limit
InitPaging ==
    /\ InitQuery
    /\ Constructed(EmptyDict)
    /\ cfg_default_filter = None
    /\ cfg_filters = [n \in {"x"} |-> [filter |-> "tag:x"]]

NextPaging ==
    \/ \E p \in Overrides : call_get(None, p)
    \/ call_current_page
    \/ get_next
    \/ get_previous
    \/ \E a \in AlertsConfigs : SetLimit(a)

SpecPaging == InitPaging /\ [][NextPaging]_vars

\* the limit session: paging under a configuration whose alerts.limit may be zero or
\* negative
InitLimits ==
    /\ cfg_alerts \in LimitConfigs
    /\ cfg_default_filter = None
    /\ cfg_filters = [n \in {} |-> EmptyDict]
    /\ Query__init__
    /\ Constructed(EmptyDict)

NextLimits ==
    \/ call_get(None, EmptyDict)
    \/ call_current_page
    \/ get_next
    \/ get_previous
    \/ \E a \in LimitConfigs : SetLimit(a)

SpecLimits == InitLimits /\ [][NextLimits]_vars

\* the filter session: every call, and a settings provider that changes the filters
InitFilter ==
    /\ InitQuery
    /\ Constructed(EmptyDict)

NextFilter ==
    \/ \E f \in FilterArgs, p \in Overrides : call_get(f, p)
    \/ get_next
    \/ get_previous
    \/ \E d \in FilterArgs : SetDefaultFilter(d)
    \/ \E t \in FilterTables : SetFilters(t)

SpecFilter == InitFilter /\ [][NextFilter]_vars

-----------------------------------------------------------------------------
(* The log session *)

InitLog ==
    /\ InitQueryDefault
    /\ cfg_opsgenie = EmptyDict
    /\ heap = <<OpsGenie("", "", ""), OpsGenie(None, None, None)>>
    /\ api = 2
    /\ mgr_pc = "done"
    /\ client_self = OpsGenie("", "", "")
    /\ inflight = EmptyBag
    /\ returned = NoReturn
    /\ defaults = [m \in ParameterMethods |-> EmptyDict]
    /\ cfg_log \in LogConfigs
    /\ log_sink = <<>>
    /\ log_file = <<>>

NextLog ==
    \/ \E m \in Messages, w \in BOOLEAN : call_ApiLog(m, w)
    \/ \E c \in LogConfigs : SetLog(c)

SpecLog == InitLog /\ [][NextLog]_vars

-----------------------------------------------------------------------------
(* Properties of Query *)

GetOps == {"get", "get_next", "get_previous"}

\* the 'filter' string the filter table configures for a name, "" when it has none
ConfiguredQuery(name) ==
    IF name \in DOMAIN cfg_filters /\ "filter" \in DOMAIN cfg_filters[name]
    THEN cfg_filters[name]["filter"]
    ELSE ""

\* C1: with a positive limit, the stored offset is >= 0 in every state reachable by
\* get / get_next / get_previous calls (get_previous never leaves it negative).
C1_StoredOffsetNonNegative == limit > 0 => offset >= 0

\* C2: with a constant limit L > 0, after n get_next calls and no get_previous call,
\* the stored offset is n * L and current_page returns n + 1.
C2_NextPagesCount ==
    (nPrev = 0 /\ ~limitChanged /\ limit > 0) =>
        /\ offset = nNext * limit
        /\ current_page = nNext + 1
        /\ last.op = "current_page" => last.ret.page = nNext + 1

C2_Witness ==
    /\ nPrev = 0 /\ ~limitChanged /\ limit = 3
    /\ nNext = 3 /\ offset = 9
    /\ last.op = "current_page" /\ last.ret.page = 4

\* C6: once a filter name is recorded in current_filter, a parameterless get /
\* get_next / get_previous resolves that name again: it returns the query the table
\* configures for it, the empty string when the table has no such entry, and leaves
\* current_filter as it was; current_filter changes only by an explicit argument.
C6_StickyFilter ==
    [][/\ (current_filter # None /\ current_filter' # current_filter) =>
            (last'.op = "get" /\ last'.filter_name = current_filter')
       /\ (/\ last' # last
           /\ last'.op \in GetOps
           /\ last'.filter_name = None
           /\ current_filter # None) =>
               /\ current_filter' = current_filter
               /\ last'.ret.query = ConfiguredQuery(current_filter)]_vars

C6_Witness ==
    /\ last.op = "get_next"
    /\ current_filter = "x"
    /\ "x" \notin DOMAIN cfg_filters
    /\ cfg_default_filter = "y"
    /\ ConfiguredQuery("y") = "tag:y"
    /\ last.ret.query = ""

\* C7: the filter a call resolves is its argument if given, else the recorded
\* current_filter, else the configured default, else none; the query returned is the
\* table's 'filter' string for that name, and "" with no name or no entry in the table.
C7_ResolutionOrder ==
    [][(last' # last /\ last'.op \in GetOps) =>
          LET chosen == IF last'.filter_name # None THEN last'.filter_name
                        ELSE IF current_filter # None THEN current_filter
                        ELSE IF cfg_default_filter # None THEN cfg_default_filter
                        ELSE None
          IN  /\ current_filter' = chosen
              /\ last'.ret.query = IF chosen = None THEN "" ELSE ConfiguredQuery(chosen)
              /\ (chosen # None /\ chosen \notin DOMAIN cfg_filters) =>
                     last'.ret.query = ""]_vars

C7_Witness ==
    /\ last.op = "get"
    /\ last.filter_name = "y"
    /\ cfg_default_filter = "x"
    /\ ConfiguredQuery("x") = "tag:x"
    /\ current_filter = "y"
    /\ last.ret.query = "tag:y"

\* C8: get returns exactly the keys limit, sort, order, offset, query and those of the
\* overrides; an overridden key has the override's value, any other the value computed
\* from the state; the call leaves the stored offset as it was.
C8_OverridesWin ==
    /\ [](last.op = "get" =>
            LET computed == [limit |-> limit, sort |-> sort, order |-> order,
                             offset |-> offset,
                             query |-> IF current_filter = None THEN ""
                                       ELSE ConfiguredQuery(current_filter)]
            IN  /\ DOMAIN last.ret = DOMAIN computed \cup DOMAIN last.parameters
                /\ \A k \in DOMAIN last.parameters : last.ret[k] = last.parameters[k]
                /\ \A k \in DOMAIN computed \ DOMAIN last.parameters :
                       last.ret[k] = computed[k])
    /\ [][(last' # last /\ last'.op = "get") => offset' = offset]_vars

C8_Witness ==
    /\ last.op = "get"
    /\ last.parameters = [offset |-> 40]
    /\ last.ret.offset = 40
    /\ offset = 44

\* C9: after every get, get_next or get_previous, current is the mapping that call
\* returned.
C9_CurrentIsLastReturned == last.op \in GetOps => current = last.ret

-----------------------------------------------------------------------------
(* Properties of the facade and the client manager *)

\* C3: for every facade method, a call whose remote operation raises returns None to
\* its caller and raises nothing.
C3_RemoteFailureIsAbsence ==
    returned.fault = "asyncio_detailed" => returned.outcome = Outcome(None, None)

C3_Witness ==
    /\ returned.fault = "asyncio_detailed"
    /\ returned.call.method = "list_alerts"
    /\ returned.call.resource = "list_alerts"
    /\ returned.outcome = Outcome(None, None)

\* C4: an exception raised at any statement of api_call's try block, those after the
\* remote call returned included, makes the call return None.
C4_AnyFailureIsAbsence ==
    returned.fault \in Faults \ {"none"} => returned.outcome = Outcome(None, None)

\* C5: no facade method raises to its caller, whatever parameter mapping it is given.
C5_FacadeNeverRaises == returned.outcome.raised = None

\* C10: no step changes an OpsGenie object once built, so a suspended call keeps the
\* facade it was dispatched on and that facade's transport handle across a reload;
\* reload assigns api a new OpsGenie built from the settings as they are at that
\* moment; and every call dispatched runs on the facade api names at that moment.
C10_ReloadLeavesInflightCalls ==
    /\ [](\A c \in BagToSet(inflight) :
              c.self \in DOMAIN heap /\ c.client = heap[c.self].client)
    /\ [][/\ \A i \in DOMAIN heap : i \in DOMAIN heap' /\ heap'[i] = heap[i]
          /\ (mgr_pc = "done" /\ (api' # api \/ heap' # heap)) =>
                /\ api' \notin DOMAIN heap
                /\ api' \in DOMAIN heap'
                /\ heap'[api'].client =
                      AuthenticatedClient(DictGet(cfg_opsgenie, "host", None),
                                          DictGet(cfg_opsgenie, "api_key", None))
                /\ heap'[api'].username = DictGet(cfg_opsgenie, "username", None)
                /\ inflight' = inflight
          /\ \A c \in BagToSet(inflight') :
                CopiesIn(c, inflight') > CopiesIn(c, inflight) =>
                    (c.self = api /\ c.client = heap[api].client)]_vars

C10_Witness ==
    /\ \E c \in BagToSet(inflight) :
          /\ c.self # api
          /\ c.client = AuthenticatedClient("https://a", "key-a")
    /\ \E c \in BagToSet(inflight) : c.self = api
    /\ heap[api].client = AuthenticatedClient("https://b", "key-b")

\* C11: once __init__ has made its first assignment, api always refers to an OpsGenie
\* (during construction, after it, after any number of reloads); between the first
\* assignment and _load it is the OpsGenie built from empty credentials
C11_ApiNeverNull ==
    /\ mgr_pc # "api" =>
          /\ api \in DOMAIN heap
          /\ {"client", "username", "source"} \subseteq DOMAIN heap[api]
    /\ mgr_pc = "_load" => heap[api] = OpsGenie("", "", "")

C11_Witness ==
    /\ mgr_pc = "done"
    /\ cfg_opsgenie = EmptyDict
    /\ Len(heap) = MaxReloads + 2
    /\ api = Len(heap)
    /\ heap[api] = OpsGenie(None, None, None)

\* the calls a state holds: those suspended at the await and the one that just returned
CallsInState ==
    BagToSet(inflight) \cup (IF DOMAIN returned.call = {} THEN {} ELSE {returned.call})

\* C12: for the same identifier, tags and note on the same OpsGenie, the payload
\* tag_alert passes has the user, source, note and tags (same order) of the flat mapping
\* remove_tag_alert passes, both pass the same identifier, and remove_tag_alert passes
\* no body
C12_TagPayloadsAgree ==
    \A c \in CallsInState :
        "identifier" \in DOMAIN c.parameters =>
            /\ c.method = "tag_alert" =>
                  LET r == remove_tag_alert(heap[c.self], c.parameters, c.tags, c.note)
                  IN  /\ r.raised = None
                      /\ c.kwargs.body.user = r.kwargs.user
                      /\ c.kwargs.body.source = r.kwargs.source
                      /\ c.kwargs.body.note = r.kwargs.note
                      /\ c.kwargs.body.tags = r.kwargs.tags
                      /\ c.kwargs.identifier = r.kwargs.identifier
                      /\ "body" \notin DOMAIN r.kwargs
            /\ c.method = "remove_tag_alert" =>
                  LET a == tag_alert(heap[c.self], c.parameters, c.tags, c.note)
                  IN  /\ c.kwargs.user = a.kwargs.body.user
                      /\ c.kwargs.source = a.kwargs.body.source
                      /\ c.kwargs.note = a.kwargs.body.note
                      /\ c.kwargs.tags = a.kwargs.body.tags
                      /\ c.kwargs.identifier = a.kwargs.identifier
                      /\ "body" \notin DOMAIN c.kwargs

C12_Witness ==
    /\ DOMAIN returned.call # {}
    /\ returned.outcome = Outcome(None, "response.parsed")
    /\ returned.call.method = "remove_tag_alert"
    /\ returned.call.kwargs =
          [user |-> "alice", source |-> Source, tags |-> <<"t2", "t1">>,
           note |-> "seen", identifier |-> "a1"]
    /\ tag_alert(heap[api], returned.call.parameters, <<"t2", "t1">>, "seen").kwargs.body =
          AddTagsToAlertPayload("alice", Source, "seen", <<"t2", "t1">>)

\* C13: the limit in effect is never zero or negative: a configured limit of zero or
\* less reads as the built-in default, current_page never divides by zero, and get_next
\* steps by a positive amount
C13_LimitAlwaysPositive ==
    /\ DictGet(cfg_alerts, "limit", DefaultLimit) <= 0 => limit = DefaultLimit
    /\ limit > 0
    /\ _limit > 0
    /\ last.op = "current_page" => "raised" \notin DOMAIN last.ret
    /\ last.op = "get_next" => last.ret.limit > 0

\* the enable flag of the log section, false when the section or the key is missing
LogEnabled ==
    /\ "log" \in DOMAIN cfg_log
    /\ "enable" \in DOMAIN cfg_log["log"]
    /\ cfg_log["log"]["enable"]

\* C14: ApiLog writes nothing, to textual's log or to the file, when the message is
\* empty or when logging is not enabled; no log section, or a log section without an
\* 'enable' key, is logging not enabled
C14_DisabledWritesNothing ==
    /\ [](\A i \in DOMAIN log_sink : log_sink[i] # "[" \o Now \o "] ")
    /\ [][~LogEnabled => (log_sink' = log_sink /\ log_file' = log_file)]_vars

\* the methods that set parameters["body"], and those that merge the caller's mapping
\* over values of their own
BodyMethods == {"ack_alert", "add_note", "unack_alert", "close_alert", "tag_alert"}

MergeMethods == {"list_alerts", "whois_on_call"}

\* C15 as stated: in every method that takes a parameters mapping and computes values
\* of its own (list_alerts, whois_on_call, and the methods that set 'body'), every key
\* of the caller's mapping reaches the remote operation with the caller's value
C15_CallerKeysWin ==
    \A c \in CallsInState :
        c.method \in MergeMethods \cup BodyMethods =>
            \A k \in DOMAIN c.parameters : c.kwargs[k] = c.parameters[k]

\* C15 amended: the caller's keys win over list_alerts' limit, sort, order and query and
\* over whois_on_call's flat and date; in the methods that set 'body' every other key
\* of the caller reaches the remote operation unchanged, and 'body' is the payload the
\* method builds from the OpsGenie's username and source and the note (and tags),
\* whether or not the caller's mapping has a 'body'
C15_CallerKeysWinExceptBody ==
    \A c \in CallsInState :
        /\ c.method \in MergeMethods =>
              \A k \in DOMAIN c.parameters : c.kwargs[k] = c.parameters[k]
        /\ c.method = "list_alerts" =>
              \A k \in {"limit", "sort", "order", "query"} \ DOMAIN c.parameters :
                  c.kwargs[k] = [limit |-> ListLimit, sort |-> "updatedAt",
                                 order |-> "desc", query |-> ""][k]
        /\ c.method = "whois_on_call" =>
              \A k \in {"flat", "date"} \ DOMAIN c.parameters :
                  c.kwargs[k] = [flat |-> TRUE, date |-> Now][k]
        /\ c.method \in BodyMethods =>
              /\ \A k \in DOMAIN c.parameters \ {"body"} : c.kwargs[k] = c.parameters[k]
              /\ c.kwargs.body =
                    IF c.method = "tag_alert"
                    THEN [user |-> heap[c.self].username, source |-> heap[c.self].source,
                          note |-> c.note, tags |-> c.tags]
                    ELSE [user |-> heap[c.self].username, source |-> heap[c.self].source,
                          note |-> c.note]

C15_Witness ==
    /\ DOMAIN returned.call # {}
    /\ returned.outcome = Outcome(None, "response.parsed")
    /\ returned.call.method = "ack_alert"
    /\ returned.call.parameters = [identifier |-> "a1", body |-> CallerBody]
    /\ returned.call.kwargs =
          [identifier |-> "a1", body |-> AlertActionPayload("alice", Source, "seen")]

\* C16: current_page() is floor(offset / limit) + 1 and at least 1 in every state
\* reachable by get, get_next and get_previous calls, whatever limit changes come
\* between them
C16_PageIsFloorPlusOne ==
    /\ current_page = (offset \div limit) + 1
    /\ current_page >= 1
    /\ last.op = "current_page" =>
          /\ last.ret.page = (offset \div limit) + 1
          /\ last.ret.page >= 1

\* alerts.limit as the configuration has it in this state
ConfiguredLimit == IF "limit" \in DOMAIN cfg_alerts THEN cfg_alerts["limit"] ELSE DefaultLimit

\* C17: the limit that get, get_next and get_previous report, and the step of get_next
\* and get_previous, is the configured limit at the moment of the call, so a change of
\* the configuration shows in the very next call; the change itself leaves the stored
\* offset as it is
C17_LimitReadAtCall ==
    /\ []((last.op \in GetOps /\ "limit" \notin DOMAIN last.parameters) =>
             last.ret.limit = ConfiguredLimit)
    /\ [][/\ nNext' = nNext + 1 => offset' = offset + ConfiguredLimit
          /\ nPrev' = nPrev + 1 => offset' = offset - ConfiguredLimit
          /\ cfg_alerts' # cfg_alerts => offset' = offset]_vars

C17_Witness ==
    /\ limitChanged
    /\ cfg_alerts = [limit |-> 3]
    /\ last.op = "get_next"
    /\ last.ret.limit = 3
    /\ offset = DefaultLimit + 3
    /\ last.ret.offset = DefaultLimit + 3

\* C18: while the configured limit L > 0 has not changed since the Query was made, the
\* stored offset is a multiple of L after any get, get_next and get_previous calls
C18_OffsetMultipleOfLimit ==
    (~limitChanged /\ ConfiguredLimit > 0) => offset % ConfiguredLimit = 0

C18_Witness ==
    /\ ~limitChanged
    /\ cfg_alerts = [limit |-> 3]
    /\ last.op = "get_previous"
    /\ nNext = 3
    /\ nPrev = 1
    /\ offset = 6

\* C19: the offset in the mapping the last get_next or get_previous call returned is
\* the stored offset, and a get_next made right after a get_previous that returned the
\* first page returns offset = limit
C19_ReturnedOffsetIsStored ==
    /\ [](last.op \in {"get_next", "get_previous"} => last.ret.offset = offset)
    /\ [][(last.op = "get_previous" /\ last.ret.offset = 0 /\ nNext' = nNext + 1) =>
             last'.ret.offset = ConfiguredLimit]_vars

\* C20: ack_alert, unack_alert, close_alert, add_note and tag_alert leave the mapping
\* the caller passed as it was, and a call made without parameters runs on an empty
\* mapping whatever calls were made before
C20_ParametersNotShared ==
    /\ \A c \in CallsInState :
          c.method \in BodyMethods =>
              /\ ~c.omitted => c.after = c.parameters
              /\ c.omitted => c.parameters = EmptyDict
    /\ \A m \in ParameterMethods : defaults[m] = EmptyDict

====
